---------------------------- MODULE Spec2Model ----------------------------
(* Model of src/app.py: a Streamlit dashboard script.  One script run is   *)
(*   select page -> generate_fake_data() -> st.title + create_page_layout()*)
(* Readings are fixed-point integers in thousandths of the unit (mm/s or   *)
(* degrees C); timestamps are hours since 2023-01-01 00:00.                *)
EXTENDS Integers, Sequences, FiniteSets

VARIABLES selected_page, pc, df, title, charts, error_banner, metrics, button

vars == <<selected_page, pc, df, title, charts, error_banner, metrics, button>>

(* ------------------------------ bounds --------------------------------- *)
\* seeds of the unseeded random source range over 0..MaxSeed
MaxSeed == 63
\* longest series of readings at/above the limit fed to the evaluator
MaxLen == 12
\* longest series of readings below/at/above the limit fed to the evaluator
MaxShortLen == 6

(* ----------------------------- constants ------------------------------- *)
TEMP_LIMIT == 80000
VIB_ISO_LIMIT == 7100
VIB_ML_LIMIT == 5000

\* day of month of start='2023-01-01' and end='2023-01-31'
StartDay == 1
EndDay == 31
\* freq='H'
HoursPerDay == 24

\* the literal 10 of vib_ml[-10:] / vib_ml[:-10] in the generator
AnomalyLen == 10
\* the literal 10 of .iloc[-10:] in the alarm indicator
AlarmWindow == 10

pages == <<"Motor 1", "Conveyor 1", "Motor 2">>

(* ------------------------- pandas / numpy helpers ---------------------- *)
Abs(x) == IF x < 0 THEN -x ELSE x

\* a date range that leaves out its end point
DateRangeExclusive(startDay, endDay) ==
    LET first == (startDay - 1) * HoursPerDay
        last  == (endDay - 1) * HoursPerDay
    IN  [i \in 1..(last - first) |-> first + (i - 1)]

\* pd.date_range(start, end, freq='H'): both end points included
DateRange(startDay, endDay) ==
    LET first == (startDay - 1) * HoursPerDay
        last  == (endDay - 1) * HoursPerDay
    IN  [i \in 1..(last - first + 1) |-> first + (i - 1)]

\* a clip that forgets the upper bound
ClipNoUpper(x, lo, hi) == IF x < lo THEN lo ELSE x

\* np.clip(x, lo, hi) on one element
Clip(x, lo, hi) == IF x < lo THEN lo ELSE IF x > hi THEN hi ELSE x

\* a window that is empty when the series is shorter than the window
ILocTailStrict(s, k) ==
    IF Len(s) < k THEN <<>> ELSE SubSeq(s, Len(s) - k + 1, Len(s))

\* s[-k:] : the last k elements, the whole of s when it is shorter
ILocTail(s, k) ==
    IF Len(s) <= k THEN s ELSE SubSeq(s, Len(s) - k + 1, Len(s))

\* the positions selected by s[-k:] and by s[:-k] in a sequence of length n
InTail(i, n, k) == i > n - k
\* a head slice that covers the whole series
InHeadAll(i, n, k) == i <= n
InHead(i, n, k) == i <= n - k

\* Series.any() and Series.sum() on a boolean series
AnyTrue(b) == \E i \in 1..Len(b) : b[i]
SumTrue(b) == Cardinality({i \in 1..Len(b) : b[i]})

\* f"{x:.2f}": thousandths rounded to hundredths, ties to even
Format2f(x) ==
    LET a == Abs(x)
        q == a \div 10
        r == a % 10
        m == IF r > 5 \/ (r = 5 /\ q % 2 = 1) THEN q + 1 ELSE q
    IN  IF x < 0 THEN -m ELSE m

(* ---------------------------- random source ---------------------------- *)
\* np.random is never seeded: the seed is a free choice, the k-th number of
\* the stream a function of the seed.
Draw(seed, k) == (seed + 27 * k) % 64

\* standard-normal draws, in whole standard deviations; the extreme levels
\* fall outside both clip ranges of the two vibration channels
ZLevels == <<-5, -1, 0, 1, 5, 7>>
\* np.random.normal(0, sd, n)[k]
Normal(seed, k, sd) == sd * ZLevels[(Draw(seed, k) % Len(ZLevels)) + 1]

\* random_sample() in [0, 1), in thousandths; 1000 is the rounded-up top
ULevels == <<0, 10, 500, 990, 1000>>
\* a uniform draw that forgets its lower end
UniformFromZero(seed, k, low, high) ==
    ((high - low) * ULevels[(Draw(seed, k) % Len(ULevels)) + 1]) \div 1000

\* np.random.uniform(low, high, n)[k] = low + (high - low) * u
Uniform(seed, k, low, high) ==
    low + ((high - low) * ULevels[(Draw(seed, k) % Len(ULevels)) + 1]) \div 1000

\* 5 * sin(2*pi*h/24) for h = 0..23, in thousandths
Sin24 == <<0, 1294, 2500, 3536, 4330, 4830, 5000, 4830, 4330, 3536, 2500, 1294,
           0, -1294, -2500, -3536, -4330, -4830, -5000, -4830, -4330, -3536,
           -2500, -1294>>

(* ------------------------------ generator ------------------------------ *)
Temperature(seed, n) ==
    [i \in 1..n |-> 45000 + Sin24[((i - 1) % 24) + 1] + Normal(seed, i, 2000)]

VibISO(seed, n) ==
    [i \in 1..n |-> Clip(4500 + Normal(seed, n + i, 300), 3500, 6500)]

VibML(seed, n) ==
    LET raw  == [i \in 1..n |-> 3800 + Normal(seed, 2 * n + i, 250)]
        \* vib_ml[-10:] = VIB_ML_LIMIT + uniform(0.2, 0.8, 10)
        over == [i \in 1..n |->
                   IF InTail(i, n, AnomalyLen)
                   THEN VIB_ML_LIMIT
                        + Uniform(seed, 3 * n + (i - (n - AnomalyLen)), 200, 800)
                   ELSE raw[i]]
        \* vib_ml[:-10] = np.clip(vib_ml[:-10], 3.0, 4.8)
    IN  [i \in 1..n |->
           IF InHead(i, n, AnomalyLen)
           THEN Clip(over[i], 3000, 4800)
           ELSE over[i]]

generate_fake_data(seed) ==
    LET dates == DateRange(StartDay, EndDay)
        n     == Len(dates)
    IN  [Date         |-> dates,
         Temperature  |-> Temperature(seed, n),
         VibrationISO |-> VibISO(seed, n),
         VibrationML  |-> VibML(seed, n)]

(* ------------------------------ evaluator ------------------------------ *)
\* a comparison that counts a reading at the limit as a breach
AboveThresholdGE(series) ==
    [i \in 1..Len(series) |-> series[i] >= VIB_ML_LIMIT]

\* a comparison against the other vibration limit
AboveThresholdISO(series) ==
    [i \in 1..Len(series) |-> series[i] > VIB_ISO_LIMIT]

\* df['Vibration ML (mm/s)'] > VIB_ML_LIMIT
AboveThreshold(series) == [i \in 1..Len(series) |-> series[i] > VIB_ML_LIMIT]

\* df[mask]['Date']: the timestamps of the selected rows (they are distinct
\* and increasing, so the set determines the trace)
Masked(dates, mask) == {dates[i] : i \in {j \in 1..Len(dates) : mask[j]}}

Not(mask) == [i \in 1..Len(mask) |-> ~mask[i]]

NoTrace == {}

Charts(frame, flags) ==
    << [title |-> "Temperature Monitoring", hline |-> TEMP_LIMIT,
        normal |-> NoTrace, alarm |-> NoTrace],
       [title |-> "Vibration Monitoring (ISO 20816)", hline |-> VIB_ISO_LIMIT,
        normal |-> NoTrace, alarm |-> NoTrace],
       [title |-> "Vibration Monitoring (Machine Learning)",
        hline |-> VIB_ML_LIMIT,
        normal |-> Masked(frame.Date, Not(flags)),
        alarm  |-> Masked(frame.Date, flags)] >>

\* an alarm condition over the whole series
IsAlarmWhole(flags) == AnyTrue(flags)

\* df['Above_Threshold'].iloc[-10:].any()
IsAlarm(flags) == AnyTrue(ILocTail(flags, AlarmWindow))

\* a breach count over the whole series
BreachCountWhole(flags) == SumTrue(flags)

\* df['Above_Threshold'].iloc[-10:].sum()
BreachCount(flags) == SumTrue(ILocTail(flags, AlarmWindow))

\* the two st.metric calls of the alarm branch
Metrics(frame, flags) ==
    LET last == frame.VibrationML[Len(frame.VibrationML)]
    IN  << [current_vibration |-> Format2f(last),
            above_limit       |-> Format2f(last - VIB_ML_LIMIT),
            time_in_alarm     |-> BreachCount(flags)] >>

\* an evaluation that also caps the readings at the limit
WithFlagsCapped(frame, flags) ==
    [Date            |-> frame.Date,
     Temperature     |-> frame.Temperature,
     VibrationISO    |-> frame.VibrationISO,
     VibrationML     |-> [i \in 1..Len(frame.VibrationML) |->
                            Clip(frame.VibrationML[i], 0, VIB_ML_LIMIT)],
     Above_Threshold |-> flags]

\* the frame after  df['Above_Threshold'] = ...
WithFlags(frame, flags) ==
    [Date            |-> frame.Date,
     Temperature     |-> frame.Temperature,
     VibrationISO    |-> frame.VibrationISO,
     VibrationML     |-> frame.VibrationML,
     Above_Threshold |-> flags]

(* -------------------------------- state -------------------------------- *)
NoFrame == [Date |-> <<>>]

Blank ==
    /\ title = ""
    /\ charts = <<>>
    /\ error_banner = FALSE
    /\ metrics = <<>>
    /\ button = ""

BlankNext ==
    /\ title' = ""
    /\ charts' = <<>>
    /\ error_banner' = FALSE
    /\ metrics' = <<>>
    /\ button' = ""

\* first run of the script: the selectbox shows its first option
Init ==
    /\ selected_page = pages[1]
    /\ pc = "generate"
    /\ df = NoFrame
    /\ Blank

(* ------------------------------- actions ------------------------------- *)
\* df = generate_fake_data()
GenerateFakeData ==
    /\ pc = "generate"
    /\ \E seed \in 0..MaxSeed : df' = generate_fake_data(seed)
    /\ pc' = "layout"
    /\ UNCHANGED <<selected_page, title, charts, error_banner, metrics, button>>

\* st.title(selected_page); create_page_layout()
Layout ==
    LET flags == AboveThreshold(df.VibrationML)
    IN  /\ title' = selected_page
        /\ df' = WithFlags(df, flags)
        /\ charts' = Charts(df, flags)
        /\ error_banner' = IsAlarm(flags)
        /\ metrics' = IF IsAlarm(flags) THEN Metrics(df, flags) ELSE <<>>
        /\ button' = selected_page
        /\ UNCHANGED selected_page

CreatePageLayout ==
    /\ pc = "layout"
    /\ Layout
    /\ pc' = "done"

\* the user picks another page in the sidebar: the script runs again
SelectPage ==
    /\ pc = "done"
    /\ \E p \in 1..Len(pages) :
          /\ pages[p] # selected_page
          /\ selected_page' = pages[p]
    /\ pc' = "generate"
    /\ df' = NoFrame
    /\ BlankNext

\* the user presses 'Analyze <page>': the script runs again, same page
ClickButton ==
    /\ pc = "done"
    /\ pc' = "generate"
    /\ df' = NoFrame
    /\ BlankNext
    /\ UNCHANGED selected_page

Next == GenerateFakeData \/ CreatePageLayout \/ SelectPage \/ ClickButton

Spec == Init /\ [][Next]_vars

(* --------------------- the evaluator on any series --------------------- *)
\* readings just below, at and just above the limit
Levels == {VIB_ML_LIMIT - 100, VIB_ML_LIMIT, VIB_ML_LIMIT + 100}
\* the largest reading that is no breach, and a breach
EdgeLevels == {VIB_ML_LIMIT, VIB_ML_LIMIT + 100}

\* the last-10 readings of the spec's scenario
Scenario == <<5100, 5300, 4900, 5500, 5000, 5200, 4950, 5600, 5050, 5400>>

AnySeries ==
    UNION {[1..n -> EdgeLevels] : n \in 0..MaxLen}
      \cup UNION {[1..n -> Levels] : n \in 0..MaxShortLen}
      \cup {Scenario, <<5100>> \o Scenario, <<4900>> \o Scenario}

\* a frame around a given Vibration ML column: hourly timestamps, the other
\* two channels at their base level
FrameOf(ml) ==
    [Date         |-> [i \in 1..Len(ml) |-> i - 1],
     Temperature  |-> [i \in 1..Len(ml) |-> 45000 + Sin24[((i - 1) % 24) + 1]],
     VibrationISO |-> [i \in 1..Len(ml) |-> 4500],
     VibrationML  |-> ml]

InitEval ==
    /\ selected_page = pages[1]
    /\ pc = "layout"
    /\ \E ml \in AnySeries : df = FrameOf(ml)
    /\ Blank

\* create_page_layout() called once more on the frame it has already seen
EvaluateAgain ==
    /\ pc = "done"
    /\ Layout
    /\ pc' = "again"

NextEval == CreatePageLayout \/ EvaluateAgain

SpecEval == InitEval /\ [][NextEval]_vars

(* ------------------------------ properties ----------------------------- *)
Generated == pc \in {"layout", "done"}
Evaluated == pc \in {"done", "again"}

ML == df.VibrationML
N == Len(df.VibrationML)
\* the positions of the trailing window of 10 samples
Window == {i \in 1..N : i > N - 10}
\* the breaches inside the trailing window, and in the whole series
Breaches == {i \in Window : ML[i] > 5000}
AllBreaches == {i \in 1..N : ML[i] > 5000}

\* C1: every generated series has exactly 721 samples, in every channel.
C1_Length ==
    Generated =>
        /\ Len(df.Date) = 721
        /\ Len(df.Temperature) = 721
        /\ Len(df.VibrationISO) = 721
        /\ Len(df.VibrationML) = 721
        /\ \A i \in 1..720 : df.Date[i + 1] = df.Date[i] + 1

C1_Witness ==
    /\ pc = "layout"
    /\ Len(df.VibrationML) = 721
    /\ df.Date[1] = 0
    /\ df.Date[721] = 720

\* C2: every Vibration ISO value lies in [3.5, 6.5]; every Vibration ML value
\* outside the last 10 lies in [3.0, 4.8].
C2_Ranges ==
    Generated =>
        /\ \A i \in 1..Len(df.VibrationISO) :
              df.VibrationISO[i] >= 3500 /\ df.VibrationISO[i] <= 6500
        /\ \A i \in 1..N : i <= N - 10 => ML[i] >= 3000 /\ ML[i] <= 4800

\* both clamps have acted at both ends
C2_Witness ==
    /\ pc = "layout"
    /\ \E i, j \in 1..Len(df.VibrationISO) :
          df.VibrationISO[i] = 3500 /\ df.VibrationISO[j] = 6500
    /\ \E i, j \in 1..(N - 10) : ML[i] = 3000 /\ ML[j] = 4800

\* C3: each of the last 10 Vibration ML values lies in [5.2, 5.8], above the
\* limit 5.0; the clamp to [3.0, 4.8] does not touch them.
C3_Tail ==
    Generated =>
        \A i \in Window : ML[i] > 5000 /\ ML[i] >= 5200 /\ ML[i] <= 5800

C3_Witness ==
    /\ pc = "layout"
    /\ Cardinality(Window) = 10
    /\ \E i, j \in Window : ML[i] = 5200 /\ ML[j] = 5800

\* C4: when the series has at least 10 samples and the last 10 all exceed the
\* limit, the alarm is raised with a breach count of 10.
C4_AllTailAbove ==
    (Evaluated /\ N >= 10 /\ \A i \in Window : ML[i] > 5000) =>
        /\ error_banner
        /\ Len(metrics) = 1
        /\ metrics[1].time_in_alarm = 10

\* an earlier sample is flagged as well, and one is not
C4_Witness ==
    /\ pc = "done"
    /\ N = 12
    /\ \A i \in Window : ML[i] > 5000
    /\ ML[1] > 5000
    /\ ML[2] <= 5000
    /\ error_banner

\* C5: when every reading is at or below the limit there is no alarm: no
\* sample is flagged, no banner and no metric is shown.
C5_AllBelow ==
    (Evaluated /\ \A i \in 1..N : ML[i] <= 5000) =>
        /\ ~error_banner
        /\ metrics = <<>>
        /\ \A i \in 1..N : ~df.Above_Threshold[i]
        /\ charts[3].alarm = {}

C5_Witness ==
    /\ pc = "done"
    /\ N = 12
    /\ \A i \in 1..N : ML[i] = 5000
    /\ ~error_banner

\* C6: flag[i] holds exactly when reading[i] is strictly above the limit; the
\* scenario's last 10 readings give flags T,T,F,T,F,T,F,T,T,T, 7 breaches and
\* an alarm, the last reading 0.40 above the limit.
C6_Flags ==
    Evaluated =>
        /\ Len(df.Above_Threshold) = N
        /\ \A i \in 1..N : df.Above_Threshold[i] <=> (ML[i] > 5000)
        /\ \A i \in 1..N : ML[i] = 5000 => ~df.Above_Threshold[i]
        /\ (N >= 10 /\ SubSeq(ML, N - 9, N) = Scenario) =>
              /\ SubSeq(df.Above_Threshold, N - 9, N) =
                   <<TRUE, TRUE, FALSE, TRUE, FALSE, TRUE, FALSE, TRUE, TRUE, TRUE>>
              /\ error_banner
              /\ metrics[1].time_in_alarm = 7
              /\ metrics[1].above_limit = 40

C6_Witness ==
    /\ pc = "done"
    /\ N = 11
    /\ SubSeq(ML, 2, 11) = Scenario
    /\ ML[1] > 5000
    /\ error_banner

\* C7: a series of fewer than 10 samples is evaluated without failure, over
\* the whole series: the alarm is raised iff some sample is flagged, and the
\* breach count is the number of flagged samples.
C7_ShortSeries ==
    /\ (pc = "layout" /\ N < 10) => ENABLED CreatePageLayout
    /\ (Evaluated /\ N < 10) =>
          /\ error_banner <=> (AllBreaches # {})
          /\ error_banner => metrics[1].time_in_alarm = Cardinality(AllBreaches)
          /\ ~error_banner => metrics = <<>>

C7_Witness ==
    /\ pc = "done"
    /\ N = 6
    /\ ML[1] > 5000
    /\ ML[6] < 5000
    /\ error_banner
    /\ metrics[1].time_in_alarm = Cardinality(AllBreaches)

\* C8: evaluation leaves the timestamps and the three channels as they were,
\* and a second evaluation of the same series shows what the first one did.
C8_Pure ==
    [][ /\ pc' \in {"done", "again"} =>
            /\ df'.Date = df.Date
            /\ df'.Temperature = df.Temperature
            /\ df'.VibrationISO = df.VibrationISO
            /\ df'.VibrationML = df.VibrationML
        /\ pc' = "again" =>
            /\ df'.Above_Threshold = df.Above_Threshold
            /\ error_banner' = error_banner
            /\ metrics' = metrics
            /\ charts' = charts ]_vars

C8_Witness ==
    /\ pc = "again"
    /\ N = 12
    /\ error_banner
    /\ metrics[1].time_in_alarm = 9
    /\ ML[1] > 5000

\* C9: the alarm is raised iff the breach count is at least 1, the breach
\* count being the number of flagged samples among the last 10 only; it is
\* between 0 and 10, and flagged samples before the window do not count.
C9_WindowOnly ==
    Evaluated =>
        /\ error_banner <=> (Cardinality(Breaches) >= 1)
        /\ Cardinality(Breaches) \in 0..10
        /\ error_banner =>
              /\ Len(metrics) = 1
              /\ metrics[1].time_in_alarm = Cardinality(Breaches)
        /\ ~error_banner => metrics = <<>>

\* flagged samples before the window, none inside it
C9_Witness ==
    /\ pc = "done"
    /\ N = 12
    /\ ML[1] > 5000 /\ ML[2] > 5000
    /\ Breaches = {}
    /\ ~error_banner

\* C10: on every page, every generated series is flagged at exactly its last
\* 10 positions: the view ends in the alarm state with 10 breaches and the
\* last reading 0.2 to 0.8 above the limit.
C10_AlwaysAlarm ==
    pc = "done" =>
        /\ selected_page \in {"Motor 1", "Conveyor 1", "Motor 2"}
        /\ {i \in 1..N : df.Above_Threshold[i]} = Window
        /\ N = 721
        /\ error_banner
        /\ Len(metrics) = 1
        /\ metrics[1].time_in_alarm = 10
        /\ ML[N] - 5000 >= 200 /\ ML[N] - 5000 <= 800
        /\ metrics[1].above_limit >= 20 /\ metrics[1].above_limit <= 80

C10_Witness ==
    /\ pc = "done"
    /\ selected_page = "Motor 2"
    /\ title = "Motor 2"
    /\ error_banner
    /\ metrics[1].time_in_alarm = 10
    /\ \E i \in 1..(N - 10) : ML[i] = 4800

=============================================================================
